---- MODULE Spec2Model ----
(***************************************************************************)
(* The /burn load generator of dojo-guestbook (src/main.go, BurnHandler).  *)
(*                                                                         *)
(* One handler invocation per request: parameter resolution, the memory    *)
(* allocation loop, context.WithTimeout, the done channel, the worker      *)
(* goroutines, the receive loop and the response.  The Go runtime appears  *)
(* as three environment actions: time passing (Tick), the context's timer  *)
(* firing (TimerFire) and a garbage-collection cycle (GCCycle); the HTTP   *)
(* server appears as the cancellation of r.Context() (ClientCancel).       *)
(***************************************************************************)
EXTENDS Integers, Sequences, FiniteSets, TLC

\* ------------------------------------------------------------------ bounds

\* Most characters the three raw query values enumerated by SpecResolve
\* have together.
MaxRawChars == 5
\* Most characters the three raw query values enumerated by the handler
\* specifications have together.
MaxQueryChars == 3
\* runtime.NumCPU() of the host.
NumCPU == 2
\* Largest resolved workers / mem_mb the handler specifications explore.
MaxWorkers == 2
MaxMemMB == 1
\* Largest resolved seconds, other than the default, they explore.
MaxSeconds == 1
\* The 1e9 reset threshold of the compute loop, in units of the loop's epsilon.
XLimit == 2

\* ------------------------------------------------------- program constants

DefaultSeconds == 20
DefaultMemMB == 0
PageStride == 4096
BlockSize == 1024 * 1024
StatusOK == 200
OkBody == "{\"ok\":true}"
JsonType == "application/json"

\* The two invocations whose interleavings are explored.
Requests == {1, 2}
\* Goroutine slots of one invocation (one more than the largest workers value).
WorkerIds == 1 .. (MaxWorkers + 1)

\* ------------------------------------------------------------ strconv.Atoi

\* The characters raw query values are built from.  Atoi itself (below)
\* knows every decimal digit; only the enumeration is restricted.
Alphabet == {"-", "+", "0", "1", "x"}

Digits ==
    [c \in {"0", "1", "2", "3", "4", "5", "6", "7", "8", "9"} |->
        CASE c = "0" -> 0 [] c = "1" -> 1 [] c = "2" -> 2 [] c = "3" -> 3
          [] c = "4" -> 4 [] c = "5" -> 5 [] c = "6" -> 6 [] c = "7" -> 7
          [] c = "8" -> 8 [] c = "9" -> 9]

IsDigit(c) == c \in DOMAIN Digits

RECURSIVE StringsOfLen(_)
StringsOfLen(n) ==
    IF n = 0 THEN {<<>>}
    ELSE {Append(s, c) : s \in StringsOfLen(n - 1), c \in Alphabet}

RECURSIVE StringsUpTo(_)
StringsUpTo(n) ==
    IF n = 0 THEN StringsOfLen(0) ELSE StringsOfLen(n) \cup StringsUpTo(n - 1)

\* The digit loop of Atoi: n = n*10 + (ch - '0'), left to right.
RECURSIVE DigitsValue(_, _)
DigitsValue(s, acc) ==
    IF s = <<>> THEN acc ELSE DigitsValue(Tail(s), acc * 10 + Digits[Head(s)])

\* strconv.Atoi(s): an optional sign, then one or more decimal digits.
\* (Every string of the lengths enumerated here is within the int range, so
\* the range error of Atoi does not arise.)
Atoi(s) ==
    LET signed == s # <<>> /\ Head(s) \in {"-", "+"}
        body == IF signed THEN Tail(s) ELSE s
    IN  IF body = <<>> \/ \E k \in DOMAIN body : ~IsDigit(body[k])
        THEN [err |-> TRUE, v |-> 0]
        ELSE [err |-> FALSE,
              v |-> IF signed /\ Head(s) = "-"
                    THEN 0 - DigitsValue(body, 0)
                    ELSE DigitsValue(body, 0)]

atoiDefault(s, d) == IF ~Atoi(s).err THEN Atoi(s).v ELSE d

\* Lines 109-111, 113-115, 117-119: if v < lo { v = lo }.
ClampMin(v, lo) == IF v < lo THEN lo ELSE v

\* (mutant) mem_mb is clamped like the other two, to 1.
BurnParamsMemAtLeastOne(query) ==
    [seconds |-> ClampMin(atoiDefault(query.seconds, DefaultSeconds), 1),
     workers |-> ClampMin(atoiDefault(query.workers, NumCPU), 1),
     memMB   |-> ClampMin(atoiDefault(query.mem_mb, DefaultMemMB), 1)]

\* Lines 108-119: the three parameters, each parsed with its default and
\* clamped from below.

BurnParams(query) ==
    [seconds |-> ClampMin(atoiDefault(query.seconds, DefaultSeconds), 1),
     workers |-> ClampMin(atoiDefault(query.workers, NumCPU), 1),
     memMB   |-> ClampMin(atoiDefault(query.mem_mb, DefaultMemMB), 0)]

\* --------------------------------------------------------------- the state

VARIABLES
    q,          \* q[r]: the raw query values of request r (line 107) while the
                \* handler is in its parameter block, NoQuery otherwise
    req,        \* req[r]: the resolved seconds / workers / memMB (lines 108-119)
    pc,         \* pc[r]: where the handler of request r stands
    i,          \* i[r]: the loop variable of the handler's current loop
    junk,       \* junk[r]: the blocks appended so far (lines 122-129)
    heap,       \* the blocks the runtime has not reclaimed, as <<request, index>>
    ctx,        \* ctx[r]: the context of line 131, NoCtx before
    ctxErr,     \* ctxErr[c]: ctx.Err() of context c: "nil" while ctx.Done() is open
    timer,      \* timer[c]: whole seconds left until the deadline of context c
    parentDone, \* parentDone[r]: r.Context() has been cancelled
    done,       \* done[r]: the channel of line 134, NoChan before
    workers,    \* workers[r][k]: the k-th goroutine started by request r: "Running"
                \* in its loop, "Sending" blocked in line 143, "Exiting" past it,
                \* "Completed" once gone
    response    \* response[r]: what the handler has written to w

vars ==
    <<q, req, pc, i, junk, heap, ctx, ctxErr, timer, parentDone, done,
      workers, response>>

NoQuery == [seconds |-> <<>>, workers |-> <<>>, mem_mb |-> <<>>]
NoRequest == [seconds |-> 0, workers |-> 0, memMB |-> 0]
NoCtx == 0
NoChan == 0
NoResponse == [status |-> 0, contentType |-> "", body |-> ""]
NoWorker == [st |-> "none", x |-> 0, ctx |-> NoCtx, ch |-> NoChan, seen |-> "nil"]

\* (mutant) the workers look at the deadline only, not at cancellation.
CtxDoneDeadlineOnly(c) == ctxErr[c] = "DeadlineExceeded"

\* Line 142: <-ctx.Done() is ready: the deadline has passed or the context
\* was cancelled.
CtxDone(c) == ctxErr[c] \in {"DeadlineExceeded", "Canceled"}

\* RawStrings[n]: the raw values of at most n characters.
RawStrings == [n \in 0 .. MaxRawChars |-> StringsUpTo(n)]

\* The raw queries whose three values have at most n characters together.
QueriesUpTo(n) ==
    UNION {UNION {{[seconds |-> s, workers |-> w, mem_mb |-> m] :
                      m \in StringsUpTo(n - Len(s) - Len(w))} :
                  w \in StringsUpTo(n - Len(s))} :
           s \in StringsUpTo(n)}

\* The requests the handler specifications explore: every query of at most
\* MaxQueryChars characters whose resolved values are within the bounds
\* (seconds may also be the default).
BurnQueries ==
    {query \in QueriesUpTo(MaxQueryChars) :
        LET p == BurnParams(query)
        IN  /\ p.seconds <= MaxSeconds \/ p.seconds = DefaultSeconds
            /\ p.workers <= MaxWorkers
            /\ p.memMB <= MaxMemMB}

\* Two calls with disjoint parameters: seconds=2&workers=1&mem_mb=1 and
\* seconds=4&workers=2.
DisjointQueries ==
    [r \in Requests |->
        IF r = 1
        THEN {[seconds |-> <<"2">>, workers |-> <<"1">>, mem_mb |-> <<"1">>]}
        ELSE {[seconds |-> <<"4">>, workers |-> <<"2">>, mem_mb |-> <<>>]}]

\* Only request 1 arrives, with a query of Q.
OnlyFirst(Q) == [r \in Requests |-> IF r = 1 THEN Q ELSE {NoQuery}]

\* The handler of every request in R has been invoked; the other requests
\* never arrive.
InitHandlers(R) ==
    /\ pc = [r \in Requests |-> IF r \in R THEN "start" ELSE "absent"]
    /\ req = [r \in Requests |-> NoRequest]
    /\ i = [r \in Requests |-> 0]
    /\ junk = [r \in Requests |-> <<>>]
    /\ heap = {}
    /\ ctx = [r \in Requests |-> NoCtx]
    /\ ctxErr = [c \in Requests |-> "unset"]
    /\ timer = [c \in Requests |-> 0]
    /\ parentDone = [r \in Requests |-> FALSE]
    /\ done = [r \in Requests |-> NoChan]
    /\ workers = [r \in Requests |-> [k \in WorkerIds |-> NoWorker]]
    /\ response = [r \in Requests |-> NoResponse]

\* Every request r in R arrives with a query of Q[r].
InitWith(R, Q) ==
    /\ \E q1 \in Q[1], q2 \in Q[2] :
          q = [r \in Requests |->
                 IF r \notin R THEN NoQuery ELSE IF r = 1 THEN q1 ELSE q2]
    /\ InitHandlers(R)

\* ------------------------------------------------------------- the handler

\* Lines 107-119: q := r.URL.Query() and the three parameters.
Resolve(r) ==
    /\ pc[r] = "start"
    /\ req' = [req EXCEPT ![r] = BurnParams(q[r])]
    /\ pc' = [pc EXCEPT ![r] = "resolved"]
    /\ UNCHANGED <<q, i, junk, heap, ctx, ctxErr, timer, parentDone, done, workers,
                   response>>

\* Lines 122-123: var junk [][]byte; i := 0.  Nothing reads q from here on,
\* and the model drops it.
BeginAlloc(r) ==
    /\ pc[r] = "resolved"
    /\ q' = [q EXCEPT ![r] = NoQuery]
    /\ junk' = [junk EXCEPT ![r] = <<>>]
    /\ i' = [i EXCEPT ![r] = 0]
    /\ pc' = [pc EXCEPT ![r] = "alloc"]
    /\ UNCHANGED <<req, heap, ctx, ctxErr, timer, parentDone, done, workers, response>>

\* (mutant) the touch loop starts at the second page.
TouchPagesFromSecond(len) == {k * PageStride : k \in 1 .. ((len - 1) \div PageStride)}

\* Lines 125-127: for j := 0; j < len(b); j += 4096 { b[j] = byte(j) }:
\* the offsets of b that are written.
TouchPages(len) == {k * PageStride : k \in 0 .. ((len - 1) \div PageStride)}

\* Lines 123-128, one iteration: allocate a block, touch it, append it.
AllocBlock(r) ==
    /\ pc[r] = "alloc"
    /\ i[r] < req[r].memMB
    /\ junk' = [junk EXCEPT ![r] =
                  Append(@, [len |-> BlockSize, touched |-> TouchPages(BlockSize)])]
    /\ heap' = heap \cup {<<r, Len(junk[r]) + 1>>}
    /\ i' = [i EXCEPT ![r] = @ + 1]
    /\ UNCHANGED <<q, req, pc, ctx, ctxErr, timer, parentDone, done, workers, response>>

\* The context context.WithTimeout returns: a new one for every call.
NewContext(r) == r

\* Lines 123 (loop exit) and 131-132: ctx, cancel := context.WithTimeout(
\* r.Context(), seconds * time.Second).  A child of a cancelled parent is
\* cancelled at once.
WithTimeout(r) ==
    /\ pc[r] = "alloc"
    /\ i[r] >= req[r].memMB
    /\ LET c == NewContext(r)
       IN  /\ ctx' = [ctx EXCEPT ![r] = c]
           /\ ctxErr' = [ctxErr EXCEPT ![c] = IF parentDone[r] THEN "Canceled" ELSE "nil"]
           /\ timer' = [timer EXCEPT ![c] = req[r].seconds]
    /\ pc' = [pc EXCEPT ![r] = "make"]
    /\ UNCHANGED <<q, req, i, junk, heap, parentDone, done, workers, response>>

\* (mutant) one package-level channel shared by every invocation.
MakeChanShared(r) == 1

\* The channel make(chan struct{}) returns: a new one for every call.
MakeChan(r) == r

\* Line 134: done := make(chan struct{}), unbuffered.
MakeDone(r) ==
    /\ pc[r] = "make"
    /\ done' = [done EXCEPT ![r] = MakeChan(r)]
    /\ pc' = [pc EXCEPT ![r] = "spawn"]
    /\ i' = [i EXCEPT ![r] = 0]
    /\ UNCHANGED <<q, req, junk, heap, ctx, ctxErr, timer, parentDone,
                   workers, response>>

\* (mutant) the spawn loop runs once more than the receive loop.
SpawnMoreOffByOne(r) == i[r] <= req[r].workers

\* Line 136: the condition of the spawn loop.
SpawnMore(r) == i[r] < req[r].workers

\* (mutant) every worker gets a timer of its own instead of the shared ctx.
SpawnOwnTimer(r) ==
    /\ pc[r] = "spawn"
    /\ SpawnMore(r)
    /\ workers' = [workers EXCEPT ![r][i[r] + 1] =
                     [st |-> "Running", x |-> 1, ctx |-> CHOOSE c \in Requests : c # ctx[r],
                      ch |-> done[r], seen |-> "nil"]]
    /\ i' = [i EXCEPT ![r] = @ + 1]
    /\ UNCHANGED <<q, req, pc, junk, heap, ctx, ctxErr, timer, parentDone, done, response>>

\* Lines 136-153, one iteration: go func() { x := 0.0001; ... }, a closure
\* over this invocation's ctx and done.
Spawn(r) ==
    /\ pc[r] = "spawn"
    /\ SpawnMore(r)
    /\ workers' = [workers EXCEPT ![r][i[r] + 1] =
                     [st |-> "Running", x |-> 1, ctx |-> ctx[r], ch |-> done[r],
                      seen |-> "nil"]]
    /\ i' = [i EXCEPT ![r] = @ + 1]
    /\ UNCHANGED <<q, req, pc, junk, heap, ctx, ctxErr, timer, parentDone,
                   done, response>>

\* Lines 136 (loop exit) and 156 (i := 0).
SpawnDone(r) ==
    /\ pc[r] = "spawn"
    /\ ~SpawnMore(r)
    /\ pc' = [pc EXCEPT ![r] = "wait"]
    /\ i' = [i EXCEPT ![r] = 0]
    /\ UNCHANGED <<q, req, junk, heap, ctx, ctxErr, timer, parentDone, done,
                   workers, response>>

\* (mutant) the receive loop waits for one signal more than was spawned.
WaitMoreOffByOne(r) == i[r] <= req[r].workers

\* Line 156: the condition of the receive loop.
WaitMore(r) == i[r] < req[r].workers

\* The goroutines blocked in a send on channel ch (line 143).
Senders(ch) ==
    {w \in Requests \X WorkerIds :
        workers[w[1]][w[2]].st = "Sending" /\ workers[w[1]][w[2]].ch = ch}

\* Lines 156-158 and 143: <-done meets the send of one blocked worker (the
\* channel is unbuffered); the worker is past its send.
Receive(r, w) ==
    /\ pc[r] = "wait"
    /\ WaitMore(r)
    /\ w \in Senders(done[r])
    /\ workers' = [workers EXCEPT ![w[1]][w[2]].st = "Exiting"]
    /\ i' = [i EXCEPT ![r] = @ + 1]
    /\ UNCHANGED <<q, req, pc, junk, heap, ctx, ctxErr, timer, parentDone,
                   done, response>>

\* What lines 160-161 leave in the ResponseWriter: Write without
\* WriteHeader sends status 200.
OkResponse == [status |-> StatusOK, contentType |-> JsonType, body |-> OkBody]

\* (mutant) the response is written without waiting for the workers.
WriteResponseEarly(r) ==
    /\ pc[r] = "wait"
    /\ response' = [response EXCEPT ![r] = OkResponse]
    /\ pc' = [pc EXCEPT ![r] = "return"]
    /\ UNCHANGED <<q, req, i, junk, heap, ctx, ctxErr, timer, parentDone, done, workers>>

\* Lines 156 (loop exit), 160-161.
WriteResponse(r) ==
    /\ pc[r] = "wait"
    /\ ~WaitMore(r)
    /\ response' = [response EXCEPT ![r] = OkResponse]
    /\ pc' = [pc EXCEPT ![r] = "return"]
    /\ UNCHANGED <<q, req, i, junk, heap, ctx, ctxErr, timer, parentDone,
                   done, workers>>

\* Line 162 with the deferred cancel() of line 132.
Return(r) ==
    /\ pc[r] = "return"
    /\ ctxErr' = [ctxErr EXCEPT ![ctx[r]] = IF @ = "nil" THEN "Canceled" ELSE @]
    /\ pc' = [pc EXCEPT ![r] = "returned"]
    /\ UNCHANGED <<q, req, i, junk, heap, ctx, timer, parentDone, done,
                   workers, response>>

\* ------------------------------------------------------------- the workers

\* floor(sqrt(n)), for math.Sqrt on the scaled x.
ISqrt(n) == CHOOSE k \in 0 .. n : k * k <= n /\ (k + 1) * (k + 1) > n

\* Lines 146-149: x += math.Sqrt(x); if x > 1e9 { x = 0.0001 }, with x in
\* units of its starting value and XLimit for 1e9.
BurnStep(x) == IF x + ISqrt(x) > XLimit THEN 1 ELSE x + ISqrt(x)

\* (mutant) the worker also leaves its loop when x is reset.
WorkerPollExitOnReset(r, k) ==
    /\ workers[r][k].st = "Running"
    /\ IF CtxDone(workers[r][k].ctx) \/ BurnStep(workers[r][k].x) = 1
       THEN workers' = [workers EXCEPT ![r][k].st = "Sending",
                                       ![r][k].seen = ctxErr[workers[r][k].ctx]]
       ELSE workers' = [workers EXCEPT ![r][k].x = BurnStep(@)]
    /\ UNCHANGED <<q, req, pc, i, junk, heap, ctx, ctxErr, timer, parentDone, done,
                   response>>

\* Lines 140-150, one iteration of worker k of request r: the select takes
\* <-ctx.Done() when the context is done (and then blocks in the send of
\* line 143), the default case otherwise.
WorkerPoll(r, k) ==
    /\ workers[r][k].st = "Running"
    /\ IF CtxDone(workers[r][k].ctx)
       THEN workers' = [workers EXCEPT ![r][k].st = "Sending",
                                       ![r][k].seen = ctxErr[workers[r][k].ctx]]
       ELSE workers' = [workers EXCEPT ![r][k].x = BurnStep(@)]
    /\ UNCHANGED <<q, req, pc, i, junk, heap, ctx, ctxErr, timer,
                   parentDone, done, response>>

\* Line 144: return; the goroutine is gone.
WorkerReturn(r, k) ==
    /\ workers[r][k].st = "Exiting"
    /\ workers' = [workers EXCEPT ![r][k].st = "Completed"]
    /\ UNCHANGED <<q, req, pc, i, junk, heap, ctx, ctxErr, timer, parentDone, done,
                   response>>

Worker(r, k) == WorkerPoll(r, k) \/ WorkerReturn(r, k)

\* --------------------------------------------------- runtime and HTTP server

\* One second passes for every running timer; a due timer fires first.
Tick ==
    /\ \E c \in Requests : ctxErr[c] = "nil"
    /\ \A c \in Requests : ctxErr[c] = "nil" => timer[c] > 0
    /\ timer' = [c \in Requests |-> IF ctxErr[c] = "nil" THEN timer[c] - 1 ELSE timer[c]]
    /\ UNCHANGED <<q, req, pc, i, junk, heap, ctx, ctxErr, parentDone, done,
                   workers, response>>

\* The deadline of context c (line 131) is reached: ctx.Done() is closed.
TimerFire(c) ==
    /\ ctxErr[c] = "nil"
    /\ timer[c] = 0
    /\ ctxErr' = [ctxErr EXCEPT ![c] = "DeadlineExceeded"]
    /\ UNCHANGED <<q, req, pc, i, junk, heap, ctx, timer, parentDone, done,
                   workers, response>>

\* The server cancels r.Context() (the client went away) while the handler
\* runs; the cancellation reaches the context derived from it in line 131.
ClientCancel(r) ==
    /\ pc[r] \notin {"absent", "returned"}
    /\ ~parentDone[r]
    /\ parentDone' = [parentDone EXCEPT ![r] = TRUE]
    /\ ctxErr' = IF ctx[r] # NoCtx /\ ctxErr[ctx[r]] = "nil"
                 THEN [ctxErr EXCEPT ![ctx[r]] = "Canceled"]
                 ELSE ctxErr
    /\ UNCHANGED <<q, req, pc, i, junk, heap, ctx, timer, done, workers,
                   response>>

\* The variable junk (line 122) of request r is live: a later append
\* (line 128) still reads it.  Nothing reads it after the allocation loop.
JunkLive(r) == pc[r] = "alloc" /\ i[r] < req[r].memMB

\* The blocks of request r that no live variable refers to: junk is the
\* only reference to them.
Unreachable(r) ==
    IF JunkLive(r) THEN {} ELSE {b \in heap : b[1] = r}

\* A collection cycle of the Go runtime frees every unreachable block.
GCCycle ==
    /\ \E r \in Requests : Unreachable(r) # {}
    /\ heap' = heap \ UNION {Unreachable(r) : r \in Requests}
    /\ UNCHANGED <<q, req, pc, i, junk, ctx, ctxErr, timer, parentDone, done,
                   workers, response>>

\* --------------------------------------------------------- specifications

Handler(r) ==
    \/ Resolve(r)
    \/ BeginAlloc(r)
    \/ AllocBlock(r)
    \/ WithTimeout(r)
    \/ MakeDone(r)
    \/ Spawn(r)
    \/ SpawnDone(r)
    \/ \E w \in Requests \X WorkerIds : Receive(r, w)
    \/ WriteResponse(r)
    \/ Return(r)

Next ==
    \/ \E r \in Requests : Handler(r)
    \/ \E r \in Requests, k \in WorkerIds : Worker(r, k)
    \/ Tick
    \/ \E c \in Requests : TimerFire(c)
    \/ \E r \in Requests : ClientCancel(r)
    \/ GCCycle

\* One invocation of the handler.
Init == InitWith({1}, OnlyFirst(BurnQueries))
Spec == Init /\ [][Next]_vars

\* Two invocations at once.
InitConcurrent == InitWith(Requests, DisjointQueries)
SpecConcurrent == InitConcurrent /\ [][Next]_vars

\* Parameter resolution alone, over every query whose three raw values
\* have at most MaxRawChars characters together.
InitResolve ==
    /\ \E s \in RawStrings[MaxRawChars] :
          \E w \in RawStrings[MaxRawChars - Len(s)] :
             \E m \in RawStrings[MaxRawChars - Len(s) - Len(w)] :
                q = [r \in Requests |->
                       IF r = 1 THEN [seconds |-> s, workers |-> w, mem_mb |-> m]
                       ELSE NoQuery]
    /\ InitHandlers({1})
NextResolve == \E r \in Requests : Resolve(r)
SpecResolve == InitResolve /\ [][NextResolve]_vars

\* The Go scheduler runs every runnable goroutine again and again, the
\* clock advances and due timers fire.  Nothing obliges the client to
\* cancel or the runtime to collect.
Fairness ==
    /\ \A r \in Requests : WF_vars(Handler(r))
    /\ \A r \in Requests : WF_vars(\E k \in WorkerIds : Worker(r, k))
    /\ WF_vars(Tick)
    /\ \A c \in Requests : WF_vars(TimerFire(c))
FairSpec == Spec /\ Fairness

\* ------------------------------------------------------------------ claims

\* The goroutines request r has started; those that have left their loop;
\* those whose signal has been received; those that are gone.
Spawned(r) == {k \in WorkerIds : workers[r][k].st # "none"}
Stopped(r) == {k \in WorkerIds : workers[r][k].st \in {"Sending", "Exiting", "Completed"}}
Signalled(r) == {k \in WorkerIds : workers[r][k].st \in {"Exiting", "Completed"}}
Completed(r) == {k \in WorkerIds : workers[r][k].st = "Completed"}

\* Every worker the request asked for was started and is gone.
AllCompleted(r) ==
    Completed(r) = Spawned(r) /\ Cardinality(Spawned(r)) = req[r].workers

\* C1: an invoked BurnHandler never hangs and never errors: whatever the
\* query was, under fair scheduling it returns, having written status 200
\* with the body {"ok":true} after every worker has stopped; it never
\* writes anything else.
C1_BurnAlwaysAnswersOk ==
    /\ \A r \in Requests : [](response[r] \in {NoResponse, OkResponse})
    /\ \A r \in Requests :
          (pc[r] = "start") ~>
              (pc[r] = "returned" /\ response[r] = OkResponse /\ AllCompleted(r))

\* C1 witness: a handler has returned after its deadline expired, with the
\* default seconds and two workers stopped.
C1_Witness ==
    \E r \in Requests :
        /\ pc[r] = "returned"
        /\ response[r] = OkResponse
        /\ ctxErr[ctx[r]] = "DeadlineExceeded"
        /\ req[r].seconds = DefaultSeconds
        /\ req[r].workers = 2
        /\ AllCompleted(r)

\* C2: the number of workers spawned equals the resolved workers value and
\* the number of signals the receive loop awaits; the handler leaves the
\* loop only after exactly that many signals, one from each worker, and
\* from then on no worker of the request is running or blocked in its send.
C2_SpawnedEqualsAwaited ==
    \A r \in Requests :
        /\ pc[r] = "spawn" => Cardinality(Spawned(r)) = i[r] /\ i[r] <= req[r].workers
        /\ pc[r] \in {"wait", "return", "returned"} =>
              Cardinality(Spawned(r)) = req[r].workers
        /\ pc[r] = "wait" => i[r] = Cardinality(Signalled(r)) /\ i[r] <= req[r].workers
        /\ pc[r] \in {"return", "returned"} =>
              /\ i[r] = req[r].workers
              /\ Signalled(r) = Spawned(r)

\* C2 witness: a handler has returned after receiving the signals of its
\* two workers.
C2_Witness ==
    \E r \in Requests :
        /\ pc[r] = "returned"
        /\ req[r].workers = 2
        /\ i[r] = 2
        /\ Cardinality(Signalled(r)) = 2

\* A raw value is an optionally signed, non-empty run of decimal digits.
IsIntegerText(s) ==
    LET body == IF s # <<>> /\ Head(s) \in {"-", "+"} THEN Tail(s) ELSE s
    IN  body # <<>> /\ \A k \in DOMAIN body : IsDigit(body[k])

\* One parameter: the default when the raw value is absent or no integer,
\* the lower bound when the integer is below it, the integer otherwise.
ResolvedField(raw, v, default, lo) ==
    /\ ~IsIntegerText(raw) => v = default
    /\ IsIntegerText(raw) /\ Atoi(raw).v < lo => v = lo
    /\ IsIntegerText(raw) /\ Atoi(raw).v >= lo => v = Atoi(raw).v

\* C3: parameter resolution is total; each parameter that is absent or not
\* an integer takes its default (20, the processor count, 0), a parsed
\* seconds or workers below 1 becomes 1, a parsed mem_mb below 0 becomes 0,
\* every other parsed value is kept; so seconds >= 1, workers >= 1 and
\* memMB >= 0, and seconds=-5&workers=0&mem_mb=-3 resolves like
\* seconds=1&workers=1&mem_mb=0.
C3_ResolveDefaultsAndClamps ==
    \A r \in Requests :
        pc[r] = "resolved" =>
            /\ ResolvedField(q[r].seconds, req[r].seconds, DefaultSeconds, 1)
            /\ ResolvedField(q[r].workers, req[r].workers, NumCPU, 1)
            /\ ResolvedField(q[r].mem_mb, req[r].memMB, DefaultMemMB, 0)
            /\ req[r].seconds >= 1 /\ req[r].workers >= 1 /\ req[r].memMB >= 0
            /\ BurnParams([seconds |-> <<"-", "5">>, workers |-> <<"0">>,
                           mem_mb |-> <<"-", "3">>])
                 = BurnParams([seconds |-> <<"1">>, workers |-> <<"1">>,
                               mem_mb |-> <<"0">>])

\* C3 witness: seconds=-1&workers=0&mem_mb=-1 has been resolved to 1, 1, 0.
C3_Witness ==
    /\ pc[1] = "resolved"
    /\ q[1] = [seconds |-> <<"-", "1">>, workers |-> <<"0">>, mem_mb |-> <<"-", "1">>]
    /\ req[1] = [seconds |-> 1, workers |-> 1, memMB |-> 0]

\* The 4096-byte-strided positions of a block of n bytes.
NumPages(n) == n \div PageStride
StridedPositions(n) == {k * PageStride : k \in 0 .. (NumPages(n) - 1)}

\* C4: once the shared deadline exists or a worker has been spawned, exactly
\* memMB blocks of 1 MiB have been allocated and every 4096-byte-strided
\* position of every one of them has been written; with memMB = 0 there is
\* no block.
C4_BlocksTouchedBeforeWorkers ==
    \A r \in Requests :
        (ctx[r] # NoCtx \/ done[r] # NoChan \/ Spawned(r) # {}) =>
            /\ Len(junk[r]) = req[r].memMB
            /\ \A b \in 1 .. Len(junk[r]) :
                  /\ junk[r][b].len = BlockSize
                  /\ StridedPositions(BlockSize) \subseteq junk[r][b].touched

\* C4 witness: a worker runs under a live deadline with one block allocated
\* and touched.
C4_Witness ==
    \E r \in Requests :
        /\ req[r].memMB = 1
        /\ Len(junk[r]) = 1
        /\ ctx[r] # NoCtx
        /\ ctxErr[ctx[r]] = "nil"
        /\ \E k \in WorkerIds : workers[r][k].st = "Running"

\* C5: from the end of allocation until the handler returns, every block
\* allocated for the request is still held: none has been reclaimed.
C5_BlocksHeldUntilReturn ==
    \A r \in Requests :
        pc[r] \in {"alloc", "make", "spawn", "wait", "return"} =>
            \A b \in 1 .. Len(junk[r]) : <<r, b>> \in heap

\* C6: cancelling the inbound request cancels the context of line 131 at
\* once; if that happens while the workers run and before the deadline, then
\* under fair scheduling every worker observes the cancellation, signals and
\* returns, and the handler writes {"ok":true} and returns with the timer
\* never having fired.
C6_CancelReleasesBarrier ==
    /\ \A r \in Requests :
          [](parentDone[r] /\ ctx[r] # NoCtx => ctxErr[ctx[r]] \in {"Canceled", "DeadlineExceeded"})
    /\ \A r \in Requests :
          (pc[r] \in {"spawn", "wait"} /\ parentDone[r] /\ ctxErr[ctx[r]] = "Canceled") ~>
              (/\ pc[r] = "returned"
               /\ response[r] = OkResponse
               /\ ctxErr[ctx[r]] = "Canceled"
               /\ Completed(r) = Spawned(r)
               /\ Cardinality(Spawned(r)) = req[r].workers
               /\ \A k \in Spawned(r) : workers[r][k].seen = "Canceled")

\* C6 witness: the request was cancelled while a worker ran with time left
\* on the timer, and the handler has returned without the timer firing.
C6_Witness ==
    \E r \in Requests :
        /\ pc[r] = "returned"
        /\ parentDone[r]
        /\ ctxErr[ctx[r]] = "Canceled"
        /\ timer[ctx[r]] > 0
        /\ req[r].workers = 2
        /\ \A k \in Spawned(r) : workers[r][k].st = "Completed" /\ workers[r][k].seen = "Canceled"
        /\ response[r] = OkResponse

\* C7: two concurrent invocations are independent: each has its own
\* deadline and its own channel, every worker polls the deadline and sends
\* on the channel of the invocation that spawned it, a worker stops only
\* when its own invocation's deadline has expired or been cancelled, a
\* barrier counts only signals of its own workers, and each invocation
\* returns after exactly its own workers count of signals.
C7_InvocationsIndependent ==
    /\ \A r1, r2 \in Requests :
          r1 # r2 =>
              /\ ctx[r1] # NoCtx => ctx[r1] # ctx[r2]
              /\ done[r1] # NoChan => done[r1] # done[r2]
    /\ \A r \in Requests :
          /\ \A k \in Spawned(r) :
                /\ workers[r][k].ctx = ctx[r]
                /\ workers[r][k].ch = done[r]
          /\ \A k \in Stopped(r) :
                /\ ctxErr[ctx[r]] \in {"Canceled", "DeadlineExceeded"}
                /\ workers[r][k].seen = ctxErr[ctx[r]]
          /\ pc[r] = "wait" => i[r] = Cardinality(Signalled(r))
          /\ pc[r] \in {"return", "returned"} =>
                i[r] = req[r].workers /\ Signalled(r) = Spawned(r)

\* C7 witness: the first invocation has returned after its one signal while
\* both workers of the second still run under their own, live deadline.
C7_Witness ==
    /\ pc[1] = "returned"
    /\ i[1] = 1
    /\ ctxErr[ctx[1]] = "DeadlineExceeded"
    /\ pc[2] = "wait"
    /\ i[2] = 0
    /\ ctxErr[ctx[2]] = "nil"
    /\ \A k \in 1 .. 2 : workers[2][k].st = "Running"

\* A worker's state may change only from Running to Sending (the poll saw
\* the context done), from Sending to Exiting (its one signal is received
\* by the waiting handler, which counts it) and from Exiting to Completed; a
\* finished worker stays finished.
WorkerStep(r, k) ==
    \/ workers'[r][k].st = workers[r][k].st
    \/ workers[r][k].st = "none" /\ workers'[r][k].st = "Running"
    \/ workers[r][k].st = "Running" /\ workers'[r][k].st = "Sending"
    \/ /\ workers[r][k].st = "Sending" /\ workers'[r][k].st = "Exiting"
       /\ pc[r] = "wait" /\ i'[r] = i[r] + 1
    \/ workers[r][k].st = "Exiting" /\ workers'[r][k].st = "Completed"

\* C8: a worker leaves its loop only after a poll saw the shared context
\* done (deadline expired or cancelled), then emits one signal and
\* terminates; the barrier has received exactly one signal per completed
\* worker; no worker stops while the context is neither expired nor
\* cancelled.
C8_WorkerSingleExit ==
    /\ [](\A r \in Requests :
            /\ \A k \in Stopped(r) :
                  /\ workers[r][k].seen \in {"Canceled", "DeadlineExceeded"}
                  /\ ctxErr[workers[r][k].ctx] = workers[r][k].seen
            /\ \A k \in Spawned(r) \ Stopped(r) : workers[r][k].seen = "nil"
            /\ pc[r] \in {"wait", "return", "returned"} =>
                  i[r] = Cardinality(Signalled(r)))
    /\ [][\A r \in Requests, k \in WorkerIds : WorkerStep(r, k)]_vars

\* C8 witness: one worker has completed after the deadline expired while
\* the other, having seen the same expiry, is blocked in its send.
C8_Witness ==
    \E r \in Requests :
        /\ pc[r] = "wait"
        /\ i[r] = 1
        /\ ctxErr[ctx[r]] = "DeadlineExceeded"
        /\ \E k1, k2 \in WorkerIds :
              /\ workers[r][k1].st = "Completed"
              /\ workers[r][k1].seen = "DeadlineExceeded"
              /\ workers[r][k2].st = "Sending"
              /\ workers[r][k2].seen = "DeadlineExceeded"

\* C9: the response is written only after the context is done (expired or
\* cancelled), every worker of the request has observed that and the signal
\* of every one of them has been received; never while a worker is still
\* running.
C9_ResponseAfterBarrier ==
    \A r \in Requests :
        response[r] # NoResponse =>
            /\ ctxErr[ctx[r]] \in {"Canceled", "DeadlineExceeded"}
            /\ Cardinality(Spawned(r)) = req[r].workers
            /\ Signalled(r) = Spawned(r)
            /\ \A k \in Spawned(r) : workers[r][k].seen = ctxErr[ctx[r]]
            /\ i[r] = req[r].workers

\* C9 witness: the response has been written after the deadline expired and
\* both workers completed; the handler has not returned yet.
C9_Witness ==
    \E r \in Requests :
        /\ pc[r] = "return"
        /\ response[r] = OkResponse
        /\ ctxErr[ctx[r]] = "DeadlineExceeded"
        /\ Cardinality(Signalled(r)) = 2

\* C10: the one deadline of a request exists before any of its workers, is
\* never replaced, is the one every worker of the request polls, and once
\* done stays done with the same error, so every worker that has left its
\* loop has observed the same expiry.
C10_OneSharedMonotoneDeadline ==
    /\ [](\A r \in Requests :
            /\ Spawned(r) # {} => ctx[r] # NoCtx
            /\ \A k \in Spawned(r) : workers[r][k].ctx = ctx[r]
            /\ \A k \in Stopped(r) : workers[r][k].seen = ctxErr[ctx[r]]
            /\ \A k1, k2 \in Stopped(r) : workers[r][k1].seen = workers[r][k2].seen)
    /\ [][\A r \in Requests :
            ctx[r] # NoCtx =>
                /\ ctx'[r] = ctx[r]
                /\ ctxErr'[ctx[r]] # "unset"
                /\ ctxErr[ctx[r]] # "nil" => ctxErr'[ctx[r]] = ctxErr[ctx[r]]
                /\ timer'[ctx[r]] <= timer[ctx[r]]]_vars

\* C10 witness: one worker has observed the expired deadline while the
\* other still runs and has yet to poll it.
C10_Witness ==
    \E r \in Requests :
        /\ ctx[r] # NoCtx
        /\ ctxErr[ctx[r]] = "DeadlineExceeded"
        /\ \E k1, k2 \in WorkerIds :
              /\ workers[r][k1].st = "Sending"
              /\ workers[r][k1].seen = "DeadlineExceeded"
              /\ workers[r][k2].st = "Running"

====
